---- MODULE Spec2Model ----
(***************************************************************************)
(* A model of mapkureader's acquisition pipeline:                          *)
(*   - MapImage.patchify and MapImage._is_blank   (load/images.py)         *)
(*   - IIIFDownloader.download, _download_scaled, _download_tiled,         *)
(*     get_region, from_manifest, from_image_url, _parse_manifest_image    *)
(*                                                 (load/downloader.py)    *)
(*   - pixel_to_geo, geo_to_pixel                  (load/geo.py)           *)
(* Each component has its own specification (SpecPatch, SpecRepeat,        *)
(* SpecDownload, SpecRegion, SpecResolve, SpecGeo) over the shared         *)
(* variables; the variables of the other components stay at their initial  *)
(* values.                                                                 *)
(***************************************************************************)
EXTENDS Integers, Sequences, FiniteSets, TLC

VARIABLES
    data,       \* MapImage.data: the raster [height, width, pix], pix[y][x] an RGB triple
    pargs,      \* arguments of the latest patchify call whose result the caller holds
    presult,    \* its outcome: a PatchSet or a raised ValueError
    first,      \* SpecRepeat: arguments and outcome of the first patchify call
    desc,       \* the IIIFDownloader: [width, height, tile_size], and as built by
                \* SpecResolve also image_service_url and scale_factors
    remote,     \* the image the server holds (what an exact tile response shows)
    dargs,      \* arguments of the download call: [given, max_size, save], or of the
                \* get_region call: [x, y, w, h, scale]
    pc,         \* position of the call in progress: "idle", "scaled", "tiles", "info", "done"
    pos,        \* <<row, col>> of the next tile of _download_tiled's loops
    canvas,     \* _download_tiled's canvas [height, width, pix]
    tile_arr,   \* the image decoded last (tile_arr of _download_tiled, img of _download_scaled)
    requests,   \* the requests issued so far, in order
    exact,      \* every tile so far was the requested region of the remote image
    failed,     \* some request has failed
    outcome,    \* what the call returned or raised
    saved,      \* whether a file was written to output_dir
    geo,        \* SpecGeo: the affine transform and the coordinates converted with it
    manifest,   \* SpecResolve: the manifest document, None for a direct service endpoint
    info,       \* the info.json the server returned
    parsed      \* what _parse_manifest_image returned: [service_url, width, height]

patchVars == <<data, pargs, presult, first>>
dlVars ==
    <<desc, remote, dargs, pc, pos, canvas, tile_arr, requests, exact, failed, outcome, saved>>
resVars == <<manifest, info, parsed>>
vars == <<patchVars, dlVars, geo, resVars>>

None == [kind |-> "None"]

Min(a, b) == IF a <= b THEN a ELSE b
Max(a, b) == IF a >= b THEN a ELSE b

(***************************************************************************)
(* Bounds of the model.                                                    *)
(***************************************************************************)
MaxPixels == 6      \* rasters and remote images have width * height <= MaxPixels
MaxPatch == 3       \* patch_size ranges over 1..MaxPatch
NegOverlap == 1     \* overlap ranges over -NegOverlap..MaxPatch
RepeatPixels == 4   \* SpecRepeat: rasters have width * height <= RepeatPixels
MaxImage == 4       \* SpecDownload: remote images have width * height <= MaxImage
MaxTile == 2        \* tile_size ranges over -NegTile..MaxTile
NegTile == 1
MaxReturn == 2      \* a returned image is 1..MaxReturn wide and high
MaxMaxSize == 3     \* max_size ranges over None, 0..MaxMaxSize
MaxScale == 2       \* affine a, e range over -MaxScale..MaxScale
MaxShear == 1       \* affine b, d range over -MaxShear..MaxShear
MaxShift == 1       \* affine c, f range over -MaxShift..MaxShift
MaxCoord == 3       \* pixel coordinates range over 0, 1/2, .., MaxCoord/2
MaxOrigin == 1      \* get_region: x, y range over 0..MaxOrigin
MaxRegion == 4      \* get_region: w, h range over 1..MaxRegion
MaxDen == 3         \* get_region: scale ranges over n/d, 1 <= n <= d <= MaxDen
MaxServices == 2    \* a "service" list has at most MaxServices entries

(***************************************************************************)
(* Rasters.  Samples are 8-bit; a pixel is a triple of channels.  Dark has *)
(* one channel below the white level, Light sits on it, White is 255.      *)
(***************************************************************************)
WhiteLevel == 250
Dark == <<255, 249, 255>>
Light == <<250, 255, 250>>
White == <<255, 255, 255>>

Dims == {wh \in (1..MaxPixels) \X (1..MaxPixels) : wh[1] * wh[2] <= MaxPixels}

RastersOf(w, h, vals) ==
    {[height |-> h, width |-> w, pix |-> p] : p \in [0..(h - 1) -> [0..(w - 1) -> vals]]}

Rasters ==
    UNION {RastersOf(wh[1], wh[2], {Dark, Light}) \cup RastersOf(wh[1], wh[2], {White})
           : wh \in Dims}

\* blank_threshold as an exact fraction <<num, den>>; the default is 0.95
DefaultThreshold == <<19, 20>>
Thresholds == {<<0, 1>>, <<1, 2>>, DefaultThreshold, <<1, 1>>}

PatchArgs ==
    {[patch_size |-> ps, overlap |-> ov, blank_threshold |-> th, skip_blank |-> sb] :
        ps \in 1..MaxPatch, ov \in (0 - NegOverlap)..MaxPatch,
        th \in Thresholds, sb \in BOOLEAN}

(***************************************************************************)
(* numpy basic slicing a[start : start + size] on an axis of length limit: *)
(* the end of the slice is clamped to the axis.                            *)
(***************************************************************************)
SliceEndShort(start, size, limit) == Min(start + size, limit) - 1

SliceEnd(start, size, limit) == Min(start + size, limit)

\* self.data[y : y + patch_size, x : x + patch_size]
PatchData(d, x, y, patch_size) ==
    LET ph == SliceEnd(y, patch_size, d.height) - y
        pw == SliceEnd(x, patch_size, d.width) - x
    IN  [height |-> ph, width |-> pw,
         pix |-> [j \in 0..(ph - 1) |-> [i \in 0..(pw - 1) |-> d.pix[y + j][x + i]]]]

\* np.all(patch >= 250, axis=-1): the pixel is white when every channel is
IsWhite(p) == \A c \in 1..Len(p) : p[c] >= WhiteLevel

\* number of True entries of white_pixels
WhiteCount(patch) ==
    Cardinality({ji \in (0..(patch.height - 1)) \X (0..(patch.width - 1)) :
                    IsWhite(patch.pix[ji[1]][ji[2]])})

\* MapImage._is_blank for uint8 data: np.mean(white_pixels) > threshold
IsBlankAtLeast(patch, threshold) ==
    WhiteCount(patch) * threshold[2] >= threshold[1] * (patch.height * patch.width)

IsBlank(patch, threshold) ==
    WhiteCount(patch) * threshold[2] > threshold[1] * (patch.height * patch.width)

Stride(a) == a.patch_size - a.overlap

\* the body of the inner loop for one (x, y): the patches it appends (none or one)
CellPatchesNominal(d, a, x, y, row_idx, col_idx) ==
    LET patch_data == PatchData(d, x, y, a.patch_size)
    IN  IF patch_data.height = 0 \/ patch_data.width = 0 THEN <<>>
        ELSE IF a.skip_blank /\ IsBlank(patch_data, a.blank_threshold) THEN <<>>
        ELSE <<[image |-> patch_data,
                pixel_bounds |-> <<x, y, a.patch_size, a.patch_size>>,
                row |-> row_idx, col |-> col_idx]>>

CellPatches(d, a, x, y, row_idx, col_idx) ==
    LET patch_data == PatchData(d, x, y, a.patch_size)
    IN  IF patch_data.height = 0 \/ patch_data.width = 0 THEN <<>>
        ELSE IF a.skip_blank /\ IsBlank(patch_data, a.blank_threshold) THEN <<>>
        ELSE <<[image |-> patch_data,
                pixel_bounds |-> <<x, y, patch_data.width, patch_data.height>>,
                row |-> row_idx, col |-> col_idx]>>

\* for x in range(0, self.width, stride), col_idx counting every step
RECURSIVE RowPatchesEmitted(_, _, _, _, _, _)
RowPatchesEmitted(d, a, y, row_idx, x, col_idx) ==
    IF x >= d.width THEN <<>>
    ELSE LET cell == CellPatches(d, a, x, y, row_idx, col_idx)
         IN  cell \o RowPatchesEmitted(d, a, y, row_idx, x + Stride(a), col_idx + Len(cell))

RECURSIVE RowPatches(_, _, _, _, _, _)
RowPatches(d, a, y, row_idx, x, col_idx) ==
    IF x >= d.width THEN <<>>
    ELSE CellPatches(d, a, x, y, row_idx, col_idx)
         \o RowPatches(d, a, y, row_idx, x + Stride(a), col_idx + 1)

\* for y in range(0, self.height, stride), row_idx counting every step
RECURSIVE AllPatchesBottomUp(_, _, _, _)
AllPatchesBottomUp(d, a, y, row_idx) ==
    IF y >= d.height THEN <<>>
    ELSE AllPatchesBottomUp(d, a, y + Stride(a), row_idx + 1)
         \o RowPatches(d, a, y, row_idx, 0, 0)

RECURSIVE AllPatches(_, _, _, _)
AllPatches(d, a, y, row_idx) ==
    IF y >= d.height THEN <<>>
    ELSE RowPatches(d, a, y, row_idx, 0, 0)
         \o AllPatches(d, a, y + Stride(a), row_idx + 1)

\* MapImage.patchify: its outcome
patchifyEager(d, a) ==
    IF Stride(a) <= 1 THEN [kind |-> "ValueError"]
    ELSE [kind |-> "PatchSet", patches |-> AllPatches(d, a, 0, 0)]

patchify(d, a) ==
    IF Stride(a) <= 0 THEN [kind |-> "ValueError"]
    ELSE [kind |-> "PatchSet", patches |-> AllPatches(d, a, 0, 0)]

\* the raster after a patchify call: patches are views, nothing is assigned
RasterAfterWhitened(d, a) ==
    [d EXCEPT !.pix[0][0] = White]

RasterAfter(d, a) == d

(***************************************************************************)
(* SpecPatch: a raster is loaded and patchify is called on it with any     *)
(* arguments; the caller holds the outcome.                                *)
(***************************************************************************)
PatchIdle ==
    /\ data = None
    /\ pargs = None
    /\ presult = None
    /\ first = None

DownloadIdle ==
    /\ desc = None
    /\ remote = None
    /\ dargs = None
    /\ pc = "idle"
    /\ pos = <<0, 0>>
    /\ canvas = None
    /\ tile_arr = None
    /\ requests = <<>>
    /\ exact = TRUE
    /\ failed = FALSE
    /\ outcome = None
    /\ saved = FALSE

GeoIdle == geo = None

ResolveIdle ==
    /\ manifest = None
    /\ info = None
    /\ parsed = None

InitPatch ==
    /\ data \in Rasters
    /\ pargs = None
    /\ presult = None
    /\ first = None
    /\ DownloadIdle
    /\ GeoIdle
    /\ ResolveIdle

Patchify(a) ==
    /\ presult = None
    /\ pargs' = a
    /\ presult' = patchify(data, a)
    /\ data' = RasterAfter(data, a)
    /\ UNCHANGED <<first, dlVars, geo, resVars>>

NextPatch == \E a \in PatchArgs : Patchify(a)

SpecPatch == InitPatch /\ [][NextPatch]_vars

(***************************************************************************)
(* SpecRepeat: patchify is called repeatedly on one raster.  The outcome   *)
(* of the first call is kept; later calls take any arguments and their     *)
(* outcomes are dropped, until a call repeats the first call's arguments.  *)
(***************************************************************************)
InitRepeat ==
    /\ InitPatch
    /\ data.width * data.height <= RepeatPixels

FirstCall(a) ==
    /\ first = None
    /\ first' = [kind |-> "Call", raster |-> data, args |-> a,
                  result |-> patchify(data, a), others |-> FALSE]
    /\ data' = RasterAfter(data, a)
    /\ UNCHANGED <<pargs, presult, dlVars, geo, resVars>>

OtherCall(a) ==
    /\ first # None
    /\ presult = None
    /\ data' = RasterAfter(data, a)
    /\ first' = [first EXCEPT !.others = TRUE]
    /\ UNCHANGED <<pargs, presult, dlVars, geo, resVars>>

RepeatCall ==
    /\ first # None
    /\ pargs' = first.args
    /\ presult' = patchify(data, first.args)
    /\ data' = RasterAfter(data, first.args)
    /\ UNCHANGED <<first, dlVars, geo, resVars>>

NextRepeat ==
    \/ \E a \in PatchArgs : FirstCall(a)
    \/ \E a \in PatchArgs : OtherCall(a)
    \/ RepeatCall

SpecRepeat == InitRepeat /\ [][NextRepeat]_vars

(***************************************************************************)
(* IIIFDownloader.download.  The server is the environment: a request      *)
(* fails, or returns an image.  A tile response is the requested region of *)
(* the remote image, or an image of another size filled with one colour.   *)
(***************************************************************************)
Black == <<0, 0, 0>>
Palette == {Black, Light}

TileSizes == (0 - NegTile)..MaxTile

ImageDims == {wh \in (1..MaxImage) \X (1..MaxImage) : wh[1] * wh[2] <= MaxImage}

Descriptors ==
    {[width |-> wh[1], height |-> wh[2], tile_size |-> ts] : wh \in ImageDims, ts \in TileSizes}

\* max_size is None (given = FALSE) or an int
DownloadArgs ==
    {[given |-> FALSE, max_size |-> 0, save |-> sv] : sv \in BOOLEAN}
    \cup {[given |-> TRUE, max_size |-> m, save |-> sv] : m \in 0..MaxMaxSize, sv \in BOOLEAN}

\* np.zeros((self.height, self.width, 3), dtype=np.uint8)
Zeros(h, w) ==
    [height |-> h, width |-> w, pix |-> [j \in 0..(h - 1) |-> [i \in 0..(w - 1) |-> Black]]]

\* an image of one colour
Fill(w, h, c) ==
    [height |-> h, width |-> w, pix |-> [j \in 0..(h - 1) |-> [i \in 0..(w - 1) |-> c]]]

\* the region x,y,w,h of the remote image
Region(img, x, y, w, h) ==
    [height |-> h, width |-> w,
     pix |-> [j \in 0..(h - 1) |-> [i \in 0..(w - 1) |-> img.pix[y + j][x + i]]]]

\* math.ceil(a / b) for a >= 0 and b # 0
CeilDiv(a, b) ==
    IF b > 0 THEN (a + b - 1) \div b ELSE 0 - (a \div (0 - b))

Cols == CeilDiv(desc.width, desc.tile_size)
Rows == CeilDiv(desc.height, desc.tile_size)

\* x, y, w, h of the tile at grid cell (row, col)
TileRegion(row, col) ==
    LET x == col * desc.tile_size
        y == row * desc.tile_size
    IN  <<x, y, Min(desc.tile_size, desc.width - x), Min(desc.tile_size, desc.height - y)>>

\* the loops "for row in range(rows): for col in range(cols)"
HasCell(rc) == rc[1] < Rows /\ rc[2] < Cols

AfterCell(rc) ==
    IF rc[2] + 1 < Cols THEN <<rc[1], rc[2] + 1>> ELSE <<rc[1] + 1, 0>>

\* if max_size and max(self.width, self.height) > max_size
TakesScaled(a) ==
    a.given /\ a.max_size # 0 /\ Max(desc.width, desc.height) > a.max_size

\* canvas[y : y + th, x : x + tw] = tile_arr[:, :, :3]: the canvas slice is
\* clamped to the canvas, and a tile of another shape cannot be assigned to it
Fits(cv, x, y, tile) ==
    /\ SliceEnd(y, tile.height, cv.height) - y = tile.height
    /\ SliceEnd(x, tile.width, cv.width) - x = tile.width

Stitched(cv, x, y, tile) ==
    [cv EXCEPT !.pix = [j \in 0..(cv.height - 1) |-> [i \in 0..(cv.width - 1) |->
        IF y <= j /\ j < y + tile.height /\ x <= i /\ i < x + tile.width
        THEN tile.pix[j - y][i - x] ELSE cv.pix[j][i]]]]

InitDownload ==
    /\ PatchIdle
    /\ GeoIdle
    /\ ResolveIdle
    /\ desc \in Descriptors
    /\ remote \in RastersOf(desc.width, desc.height, Palette)
    /\ dargs = None
    /\ pc = "idle"
    /\ pos = <<0, 0>>
    /\ canvas = None
    /\ tile_arr = None
    /\ requests = <<>>
    /\ exact = TRUE
    /\ failed = FALSE
    /\ outcome = None
    /\ saved = FALSE

\* download(max_size, save) up to its first request: the choice of the path and,
\* on the tiled path, the grid and the canvas
Download(a) ==
    /\ pc = "idle"
    /\ dargs' = a
    /\ IF TakesScaled(a)
       THEN /\ pc' = "scaled"
            /\ UNCHANGED <<canvas, outcome>>
       ELSE IF desc.tile_size = 0
       THEN /\ pc' = "done"
            /\ outcome' = [kind |-> "ZeroDivisionError"]
            /\ UNCHANGED canvas
       ELSE /\ pc' = "tiles"
            /\ canvas' = Zeros(desc.height, desc.width)
            /\ UNCHANGED outcome
    /\ UNCHANGED <<geo, resVars, patchVars, desc, remote, pos, tile_arr, requests, exact, failed, saved>>

ScaledRequest == [kind |-> "scaled", region |-> "full", fit |-> dargs.max_size]

\* _download_scaled: the one request fails
FetchScaledFails ==
    /\ pc = "scaled"
    /\ requests' = Append(requests, ScaledRequest)
    /\ failed' = TRUE
    /\ pc' = "done"
    /\ outcome' = [kind |-> "URLError"]
    /\ UNCHANGED <<geo, resVars, patchVars, desc, remote, dargs, pos, canvas, tile_arr, exact, saved>>

\* _download_scaled: the one request returns img, which is saved and returned
FetchScaled(img) ==
    /\ pc = "scaled"
    /\ requests' = Append(requests, ScaledRequest)
    /\ pc' = "done"
    /\ tile_arr' = img
    /\ saved' = dargs.save
    /\ outcome' = [kind |-> "MapImage", data |-> img]
    /\ UNCHANGED <<geo, resVars, patchVars, desc, remote, dargs, pos, canvas, exact, failed>>

TileRequest(rc) ==
    LET r == TileRegion(rc[1], rc[2])
    IN  [kind |-> "tile", region |-> r, size |-> "full"]

\* _download_tiled: the request of the next tile fails and the call raises
FetchTileFailsSwallowed ==
    /\ pc = "tiles" /\ HasCell(pos)
    /\ requests' = Append(requests, TileRequest(pos))
    /\ failed' = TRUE
    /\ pos' = AfterCell(pos)
    /\ UNCHANGED <<geo, resVars, patchVars, desc, remote, dargs, pc, canvas, tile_arr, exact, outcome, saved>>

FetchTileFails ==
    /\ pc = "tiles" /\ HasCell(pos)
    /\ requests' = Append(requests, TileRequest(pos))
    /\ failed' = TRUE
    /\ pc' = "done"
    /\ outcome' = [kind |-> "URLError"]
    /\ UNCHANGED <<geo, resVars, patchVars, desc, remote, dargs, pos, canvas, tile_arr, exact, saved>>

\* _download_tiled: one pass of the inner loop with the tile the server returned
FetchTile(tile, isExact) ==
    /\ pc = "tiles" /\ HasCell(pos)
    /\ requests' = Append(requests, TileRequest(pos))
    /\ tile_arr' = tile
    /\ exact' = (exact /\ isExact)
    /\ LET r == TileRegion(pos[1], pos[2])
       IN  IF Fits(canvas, r[1], r[2], tile)
           THEN /\ canvas' = Stitched(canvas, r[1], r[2], tile)
                /\ pos' = AfterCell(pos)
                /\ UNCHANGED <<pc, outcome>>
           ELSE /\ pc' = "done"
                /\ outcome' = [kind |-> "ValueError"]
                /\ UNCHANGED <<canvas, pos>>
    /\ UNCHANGED <<geo, resVars, patchVars, desc, remote, dargs, failed, saved>>

\* the server returns the requested region of its image
FetchExactTile ==
    /\ pc = "tiles" /\ HasCell(pos)
    /\ LET r == TileRegion(pos[1], pos[2])
       IN  FetchTile(Region(remote, r[1], r[2], r[3], r[4]), TRUE)

\* the server returns an image of another size
FetchOtherTile ==
    /\ pc = "tiles" /\ HasCell(pos)
    /\ \E tw \in 1..MaxReturn, th \in 1..MaxReturn, c \in Palette :
          LET r == TileRegion(pos[1], pos[2])
          IN  /\ <<tw, th>> # <<r[3], r[4]>>
              /\ FetchTile(Fill(tw, th, c), FALSE)

\* _download_tiled after its loops: the canvas is saved and returned
FinishTiled ==
    /\ pc = "tiles" /\ ~HasCell(pos)
    /\ pc' = "done"
    /\ saved' = dargs.save
    /\ outcome' = [kind |-> "MapImage", data |-> canvas]
    /\ UNCHANGED <<geo, resVars, patchVars, desc, remote, dargs, pos, canvas, tile_arr, requests, exact, failed>>

\* the images a scaled request may return
ScaledImages ==
    UNION {RastersOf(wh[1], wh[2], Palette) :
        wh \in {d \in (1..MaxReturn) \X (1..MaxReturn) : d[1] * d[2] <= MaxImage}}

NextDownload ==
    \/ \E a \in DownloadArgs : Download(a)
    \/ FetchScaledFails
    \/ \E img \in ScaledImages : FetchScaled(img)
    \/ FetchTileFails
    \/ FetchExactTile
    \/ FetchOtherTile
    \/ FinishTiled

SpecDownload == InitDownload /\ [][NextDownload]_vars

(***************************************************************************)
(* IIIFDownloader.get_region.  scale is an exact fraction <<num, den>> with *)
(* 0 < num <= den.                                                         *)
(***************************************************************************)
Scales == {nd \in (1..MaxDen) \X (1..MaxDen) : nd[1] <= nd[2]}

RegionArgs ==
    {[x |-> x, y |-> y, w |-> w, h |-> h, scale |-> sc] :
        x \in 0..MaxOrigin, y \in 0..MaxOrigin,
        w \in 1..MaxRegion, h \in 1..MaxRegion, sc \in Scales}

\* int(v) for v = num / den >= 0: the fraction is cut off
IntOf(num, den) == num \div den

\* max(1, int(w * scale))
ScaledEdgeUnclamped(w, scale) == IntOf(w * scale[1], scale[2])

ScaledEdge(w, scale) == Max(1, IntOf(w * scale[1], scale[2]))

\* the size part of the URL: "sw,sh" if scale < 1.0, else "full"
RegionSize(a) ==
    IF a.scale[1] < a.scale[2]
    THEN [kind |-> "wh", w |-> ScaledEdge(a.w, a.scale), h |-> ScaledEdge(a.h, a.scale)]
    ELSE [kind |-> "full"]

RegionRequest(a) ==
    [kind |-> "region", region |-> <<a.x, a.y, a.w, a.h>>, size |-> RegionSize(a)]

\* the image a server returns for a region request: of the size asked for
RegionImages(a) ==
    LET size == RegionSize(a)
    IN  IF size.kind = "full" THEN {Fill(a.w, a.h, c) : c \in Palette}
        ELSE {Fill(size.w, size.h, c) : c \in Palette}

InitRegion ==
    /\ PatchIdle
    /\ GeoIdle
    /\ ResolveIdle
    /\ desc \in {d \in Descriptors : d.tile_size = MaxTile}
    /\ remote = None
    /\ dargs = None
    /\ pc = "idle"
    /\ pos = <<0, 0>>
    /\ canvas = None
    /\ tile_arr = None
    /\ requests = <<>>
    /\ exact = TRUE
    /\ failed = FALSE
    /\ outcome = None
    /\ saved = FALSE

\* get_region(x, y, w, h, scale): the request is answered by an image img
GetRegion(a) ==
    /\ pc = "idle"
    /\ dargs' = a
    /\ requests' = Append(requests, RegionRequest(a))
    /\ \E img \in RegionImages(a) :
          /\ tile_arr' = img
          /\ outcome' = [kind |-> "ndarray", data |-> img]
    /\ pc' = "done"
    /\ UNCHANGED <<geo, resVars, patchVars, desc, remote, pos, canvas, exact, failed, saved>>

\* get_region: the request fails
GetRegionFails(a) ==
    /\ pc = "idle"
    /\ dargs' = a
    /\ requests' = Append(requests, RegionRequest(a))
    /\ failed' = TRUE
    /\ outcome' = [kind |-> "URLError"]
    /\ pc' = "done"
    /\ UNCHANGED <<geo, resVars, patchVars, desc, remote, pos, canvas, tile_arr, exact, saved>>

NextRegion ==
    \/ \E a \in RegionArgs : GetRegion(a)
    \/ \E a \in RegionArgs : GetRegionFails(a)

SpecRegion == InitRegion /\ [][NextRegion]_vars

(***************************************************************************)
(* IIIFDownloader.from_manifest, from_image_url and _parse_manifest_image.  *)
(* A JSON list is a sequence; the lists of the manifest hierarchy and the   *)
(* tiles list hold no or one entry, a service list up to MaxServices.  An   *)
(* entry that may be missing from a JSON object is a sequence of no or one  *)
(* value.  In a manifest, where the code                                    *)
(* reads width and height with `get(..) or get(.., 0)`, a missing entry is  *)
(* the 0 the code makes of it.  A service is its id: the "@id" entry or,    *)
(* failing that, the "id" entry, "" when it has neither.                    *)
(***************************************************************************)
DefaultTileSize == 1024
DefaultScaleFactors == <<1>>

Ids == {"", "a", "b"}

SeqsUpTo(S, n) == UNION {[1..k -> S] : k \in 0..n}

Opt(S) == {<<>>} \cup {<<v>> : v \in S}

Lists(S) == {<<>>} \cup {<<v>> : v \in S}

\* "service" is one object or a list of objects
Services ==
    {[list |-> FALSE, ids |-> <<i>>] : i \in Ids}
    \cup {[list |-> TRUE, ids |-> l] : l \in SeqsUpTo(Ids, MaxServices)}

ResourceDims == {<<0, 0>>, <<2, 1>>}
CanvasDims == {<<0, 0>>, <<4, 3>>}

\* a v2 resource or a v3 body
Resources ==
    {[service |-> sv, width |-> wh[1], height |-> wh[2]] : sv \in Services, wh \in ResourceDims}

\* v2: sequences -> canvases -> images -> resource
CanvasesV2 ==
    {[width |-> wh[1], height |-> wh[2], images |-> im] :
        wh \in CanvasDims, im \in Lists({[resource |-> r] : r \in Resources})}

SequencesV2 == {[canvases |-> cs] : cs \in Lists(CanvasesV2)}

\* v3: items (canvases) -> items (annotation pages) -> items (annotations) -> body
AnnotationPages ==
    {[items |-> an] : an \in Lists({[body |-> r] : r \in Resources})}

CanvasesV3 ==
    {[width |-> wh[1], height |-> wh[2], items |-> pg] :
        wh \in CanvasDims, pg \in Lists(AnnotationPages)}

Manifests ==
    {[sequences |-> sq, items |-> cv] :
        sq \in Lists(SequencesV2), cv \in Lists(CanvasesV3)}

\* info.json: width, height and tiles: [{width, scaleFactors}]
TileInfos ==
    {[width |-> w, scaleFactors |-> sf] : w \in Opt({0, MaxTile}), sf \in Opt({<<>>, <<1, 2>>})}

InfoDims == {<<<<>>, <<>>>>, <<<<0>>, <<0>>>>, <<<<2>>, <<1>>>>}

Infos ==
    {[width |-> wh[1], height |-> wh[2], tiles |-> t] :
        wh \in InfoDims, t \in Opt(Lists(TileInfos))}

\* the service URL given to from_image_url
Endpoint == "a"

\* d.get(key, default)
Get(entry, default) == IF entry = <<>> THEN default ELSE entry[1]

\* v or w, for integers
Or(v, w) == IF v # 0 THEN v ELSE w

RECURSIVE Cat(_)
Cat(ss) == IF ss = <<>> THEN <<>> ELSE Head(ss) \o Cat(Tail(ss))

\* the service_id of a v2 resource: of the object, or of the first entry of the list
ServiceId(service) ==
    IF service.list
    THEN IF service.ids = <<>> THEN "" ELSE service.ids[1]
    ELSE service.ids[1]

\* "if service_id: ... return": what the traversal returns at this reference
Found(id, resource, cnv) ==
    IF id # ""
    THEN <<[kind |-> "tuple", service_url |-> id,
            width |-> Or(resource.width, cnv.width),
            height |-> Or(resource.height, cnv.height)]>>
    ELSE <<>>

\* the returns of the v2 loops, in loop order
FoundV2(m) ==
    Cat([s \in 1..Len(m.sequences) |->
        Cat([c \in 1..Len(m.sequences[s].canvases) |->
            LET cnv == m.sequences[s].canvases[c]
            IN  Cat([i \in 1..Len(cnv.images) |->
                    LET resource == cnv.images[i].resource
                    IN  Found(ServiceId(resource.service), resource, cnv)])])])

\* the returns of the v3 loops, in loop order: every entry of a service list is tried
FoundV3(m) ==
    Cat([c \in 1..Len(m.items) |->
        LET cnv == m.items[c]
        IN  Cat([p \in 1..Len(cnv.items) |->
                Cat([a \in 1..Len(cnv.items[p].items) |->
                    LET body == cnv.items[p].items[a].body
                    IN  Cat([k \in 1..Len(body.service.ids) |->
                            Found(body.service.ids[k], body, cnv)])])])])

\* _parse_manifest_image: the first return reached, or ValueError after both traversals
parse_manifest_image_v3_first(m) ==
    LET found == FoundV3(m) \o FoundV2(m)
    IN  IF found = <<>> THEN [kind |-> "ValueError"] ELSE found[1]

parse_manifest_image(m) ==
    LET found == FoundV2(m) \o FoundV3(m)
    IN  IF found = <<>> THEN [kind |-> "ValueError"] ELSE found[1]

\* tile_size and scale_factors read from info.json
TileConfig(doc) ==
    IF doc.tiles # <<>> /\ doc.tiles[1] # <<>>
    THEN LET tile_info == doc.tiles[1][1]
         IN  <<Get(tile_info.width, DefaultTileSize),
               Get(tile_info.scaleFactors, DefaultScaleFactors)>>
    ELSE <<DefaultTileSize, DefaultScaleFactors>>

\* IIIFDownloader.__init__
IIIFDownloader(image_service_url, width, height, tile_size, scale_factors) ==
    [image_service_url |-> image_service_url, width |-> width, height |-> height,
     tile_size |-> tile_size,
     scale_factors |-> IF scale_factors = <<>> THEN DefaultScaleFactors ELSE scale_factors]

InitResolve ==
    /\ PatchIdle
    /\ GeoIdle
    /\ DownloadIdle
    /\ manifest \in Manifests \cup {None}
    /\ info = None
    /\ parsed = None

\* from_manifest: the manifest cannot be fetched
FetchManifestFails ==
    /\ pc = "idle" /\ manifest # None
    /\ requests' = Append(requests, [kind |-> "manifest"])
    /\ failed' = TRUE
    /\ pc' = "done"
    /\ outcome' = [kind |-> "URLError"]
    /\ UNCHANGED <<geo, resVars, patchVars, desc, remote, dargs, pos, canvas, tile_arr, exact, saved>>

\* from_manifest up to its second request: the manifest is fetched and parsed
FromManifest ==
    /\ pc = "idle" /\ manifest # None
    /\ requests' = Append(requests, [kind |-> "manifest"])
    /\ LET found == parse_manifest_image(manifest)
       IN  IF found.kind = "ValueError"
           THEN /\ pc' = "done"
                /\ outcome' = [kind |-> "ValueError"]
                /\ UNCHANGED parsed
           ELSE /\ pc' = "info"
                /\ parsed' = found
                /\ UNCHANGED outcome
    /\ UNCHANGED <<geo, manifest, info, patchVars, desc, remote, dargs, pos, canvas, tile_arr,
                   exact, failed, saved>>

\* from_manifest: the info.json of the service cannot be fetched
FetchInfoFails ==
    /\ pc = "info"
    /\ requests' = Append(requests, [kind |-> "info", url |-> parsed.service_url])
    /\ failed' = TRUE
    /\ pc' = "done"
    /\ outcome' = [kind |-> "URLError"]
    /\ UNCHANGED <<geo, resVars, patchVars, desc, remote, dargs, pos, canvas, tile_arr, exact, saved>>

\* from_manifest: the info.json is fetched and the downloader is built
FetchInfo(doc) ==
    /\ pc = "info"
    /\ requests' = Append(requests, [kind |-> "info", url |-> parsed.service_url])
    /\ info' = doc
    /\ desc' = IIIFDownloader(parsed.service_url, parsed.width, parsed.height,
                               TileConfig(doc)[1], TileConfig(doc)[2])
    /\ pc' = "done"
    /\ outcome' = [kind |-> "IIIFDownloader"]
    /\ UNCHANGED <<geo, manifest, parsed, patchVars, remote, dargs, pos, canvas, tile_arr,
                   exact, failed, saved>>

\* from_image_url: the info.json cannot be fetched
FromImageUrlFails ==
    /\ pc = "idle" /\ manifest = None
    /\ requests' = Append(requests, [kind |-> "info", url |-> Endpoint])
    /\ failed' = TRUE
    /\ pc' = "done"
    /\ outcome' = [kind |-> "URLError"]
    /\ UNCHANGED <<geo, resVars, patchVars, desc, remote, dargs, pos, canvas, tile_arr, exact, saved>>

\* from_image_url: info["width"] and info["height"] must be there
FromImageUrl(doc) ==
    /\ pc = "idle" /\ manifest = None
    /\ requests' = Append(requests, [kind |-> "info", url |-> Endpoint])
    /\ info' = doc
    /\ pc' = "done"
    /\ IF doc.width = <<>> \/ doc.height = <<>>
       THEN /\ outcome' = [kind |-> "KeyError"]
            /\ UNCHANGED desc
       ELSE /\ desc' = IIIFDownloader(Endpoint, doc.width[1], doc.height[1],
                                       TileConfig(doc)[1], TileConfig(doc)[2])
            /\ outcome' = [kind |-> "IIIFDownloader"]
    /\ UNCHANGED <<geo, manifest, parsed, patchVars, remote, dargs, pos, canvas, tile_arr,
                   exact, failed, saved>>

NextResolve ==
    \/ FetchManifestFails
    \/ FromManifest
    \/ FetchInfoFails
    \/ \E doc \in Infos : FetchInfo(doc)
    \/ FromImageUrlFails
    \/ \E doc \in Infos : FromImageUrl(doc)

SpecResolve == InitResolve /\ [][NextResolve]_vars

(***************************************************************************)
(* load/geo.py.  Coordinates are exact fractions <<num, den>>, den # 0; an *)
(* affine transform is its six coefficients [a, b, c, d, e, f].            *)
(***************************************************************************)
RInt(n) == <<n, 1>>
RAdd(p, q) == <<p[1] * q[2] + q[1] * p[2], p[2] * q[2]>>
RMul(p, q) == <<p[1] * q[1], p[2] * q[2]>>
RNeg(p) == <<0 - p[1], p[2]>>
REq(p, q) == p[1] * q[2] = q[1] * p[2]

Transforms ==
    {[a |-> RInt(a), b |-> RInt(b), c |-> RInt(c), d |-> RInt(d), e |-> RInt(e), f |-> RInt(f)] :
        a \in (0 - MaxScale)..MaxScale, e \in (0 - MaxScale)..MaxScale,
        b \in (0 - MaxShear)..MaxShear, d \in (0 - MaxShear)..MaxShear,
        c \in (0 - MaxShift)..MaxShift, f \in (0 - MaxShift)..MaxShift}

Coords == {<<n, 2>> : n \in 0..MaxCoord}

\* transform * (x, y)
Apply(T, x, y) ==
    <<RAdd(RAdd(RMul(T.a, x), RMul(T.b, y)), T.c),
      RAdd(RAdd(RMul(T.d, x), RMul(T.e, y)), T.f)>>

\* Affine.determinant
Determinant(T) == RAdd(RMul(T.a, T.e), RNeg(RMul(T.b, T.d)))

\* Affine.is_degenerate
IsDegenerate(T) == Determinant(T)[1] = 0

\* ~transform, for a transform that is not degenerate
InvertLinearOnly(T) ==
    LET det == Determinant(T)
        idet == <<det[2], det[1]>>
    IN  [a |-> RMul(T.e, idet), b |-> RMul(RNeg(T.b), idet), c |-> RNeg(T.c),
         d |-> RMul(RNeg(T.d), idet), e |-> RMul(T.a, idet), f |-> RNeg(T.f)]

Invert(T) ==
    LET det == Determinant(T)
        idet == <<det[2], det[1]>>
        ra == RMul(T.e, idet)
        rb == RMul(RNeg(T.b), idet)
        rd == RMul(RNeg(T.d), idet)
        re == RMul(T.a, idet)
    IN  [a |-> ra, b |-> rb, c |-> RAdd(RMul(RNeg(T.c), ra), RNeg(RMul(T.f, rb))),
         d |-> rd, e |-> re, f |-> RAdd(RMul(RNeg(T.c), rd), RNeg(RMul(T.f, re)))]

pixel_to_geo(x, y, T) == Apply(T, x, y)

geo_to_pixel(geo_x, geo_y, T) == Apply(Invert(T), geo_x, geo_y)

InitGeo ==
    /\ PatchIdle
    /\ DownloadIdle
    /\ ResolveIdle
    /\ geo \in {[kind |-> "transform", T |-> t] : t \in Transforms}

\* pixel_to_geo(x, y, transform)
PixelToGeo(x, y) ==
    /\ geo.kind = "transform"
    /\ geo' = [kind |-> "geo", T |-> geo.T, pixel |-> <<x, y>>,
                point |-> pixel_to_geo(x, y, geo.T)]
    /\ UNCHANGED <<patchVars, dlVars, resVars>>

\* geo_to_pixel on the point pixel_to_geo gave: ~transform raises when degenerate
GeoToPixel ==
    /\ geo.kind = "geo"
    /\ geo' = IF IsDegenerate(geo.T)
               THEN [kind |-> "TransformNotInvertibleError", T |-> geo.T, pixel |-> geo.pixel,
                     point |-> geo.point]
               ELSE [kind |-> "pixel", T |-> geo.T, pixel |-> geo.pixel, point |-> geo.point,
                     back |-> geo_to_pixel(geo.point[1], geo.point[2], geo.T)]
    /\ UNCHANGED <<patchVars, dlVars, resVars>>

NextGeo ==
    \/ \E x \in Coords, y \in Coords : PixelToGeo(x, y)
    \/ GeoToPixel

SpecGeo == InitGeo /\ [][NextGeo]_vars

(***************************************************************************)
(* Properties of patchify (SpecPatch, SpecRepeat).  The helpers below      *)
(* recompute the grid and the blank ratio from the raster itself.          *)
(***************************************************************************)
Returned == presult.kind = "PatchSet"

PixelBounds(i) == presult.patches[i].pixel_bounds

\* the grid origins the two loops visit
GridXs == {x \in 0..(data.width - 1) : x % Stride(pargs) = 0}
GridYs == {y \in 0..(data.height - 1) : y % Stride(pargs) = 0}
Grid == GridXs \X GridYs

CellW(x) == Min(pargs.patch_size, data.width - x)
CellH(y) == Min(pargs.patch_size, data.height - y)

CellWhites(x, y) ==
    Cardinality({ij \in (0..(CellW(x) - 1)) \X (0..(CellH(y) - 1)) :
        \A c \in 1..3 : data.pix[y + ij[2]][x + ij[1]][c] >= 250})

\* blank ratio of the cell at (x, y) strictly greater than blank_threshold
CellBlank(x, y) ==
    CellWhites(x, y) * pargs.blank_threshold[2]
        > pargs.blank_threshold[1] * (CellW(x) * CellH(y))

Covers(i, x, y) ==
    /\ PixelBounds(i)[1] <= x /\ x < PixelBounds(i)[1] + PixelBounds(i)[3]
    /\ PixelBounds(i)[2] <= y /\ y < PixelBounds(i)[2] + PixelBounds(i)[4]

Divides ==
    /\ pargs.overlap = 0
    /\ data.width % pargs.patch_size = 0
    /\ data.height % pargs.patch_size = 0

ExactTiling ==
    /\ Len(presult.patches)
          = (data.height \div pargs.patch_size) * (data.width \div pargs.patch_size)
    /\ \A x \in 0..(data.width - 1), y \in 0..(data.height - 1) :
          Cardinality({i \in 1..Len(presult.patches) : Covers(i, x, y)}) = 1

\* C1 as stated: with overlap = 0 and a patch_size dividing width and height,
\* whatever the other arguments, patchify emits (height/patch_size) *
\* (width/patch_size) patches whose rectangles cover every pixel exactly once.
C1_TilesWhateverArgs == (Returned /\ Divides) => ExactTiling

\* C1 amended: the same, provided no grid cell is skipped as blank, that is
\* skip_blank is false or no cell's blank ratio exceeds blank_threshold.
C1_TilesWhenNothingSkipped ==
    (Returned /\ Divides
        /\ (pargs.skip_blank => \A xy \in Grid : ~CellBlank(xy[1], xy[2])))
    => ExactTiling

C1_Witness ==
    /\ Returned /\ Divides
    /\ pargs.skip_blank
    /\ \A xy \in Grid : ~CellBlank(xy[1], xy[2])
    /\ \E xy \in Grid : CellWhites(xy[1], xy[2]) > 0
    /\ data.width = 3 /\ data.height = 2
    /\ Len(presult.patches) = 6

\* C2: every emitted patch (x, y, pixelW, pixelH) has pixelW > 0, pixelH > 0,
\* x >= 0, y >= 0, x + pixelW <= width, y + pixelH <= height, with
\* pixelW = min(patch_size, width - x) and pixelH = min(patch_size, height - y).
C2_PatchesInsideRaster ==
    Returned =>
        \A i \in 1..Len(presult.patches) :
            LET b == PixelBounds(i) IN
            /\ b[3] > 0 /\ b[4] > 0
            /\ b[1] >= 0 /\ b[2] >= 0
            /\ b[1] + b[3] <= data.width
            /\ b[2] + b[4] <= data.height
            /\ b[3] = Min(pargs.patch_size, data.width - b[1])
            /\ b[4] = Min(pargs.patch_size, data.height - b[2])
            /\ presult.patches[i].image.width = b[3]
            /\ presult.patches[i].image.height = b[4]

C2_Witness ==
    /\ Returned
    /\ pargs.overlap > 0
    /\ \E i \in 1..Len(presult.patches) :
          /\ PixelBounds(i)[3] < pargs.patch_size
          /\ PixelBounds(i)[4] < pargs.patch_size
    /\ \E i \in 1..Len(presult.patches) :
          /\ PixelBounds(i)[3] = pargs.patch_size
          /\ PixelBounds(i)[4] = pargs.patch_size

AllWhite == \A y \in 0..(data.height - 1), x \in 0..(data.width - 1) : data.pix[y][x] = White

\* C8: with skip_blank a grid cell is left out exactly when its blank ratio is
\* strictly greater than blank_threshold; without skip_blank every grid cell
\* is emitted.  An all-255 raster with skip_blank and threshold 0.95 yields an
\* empty PatchSet, and the full grid without skip_blank.
C8_SkippedIffBlank ==
    Returned =>
        /\ {<<PixelBounds(i)[1], PixelBounds(i)[2]>> : i \in 1..Len(presult.patches)}
              = {xy \in Grid : ~(pargs.skip_blank /\ CellBlank(xy[1], xy[2]))}
        /\ Len(presult.patches)
              = Cardinality({xy \in Grid : ~(pargs.skip_blank /\ CellBlank(xy[1], xy[2]))})
        /\ (AllWhite /\ pargs.skip_blank /\ pargs.blank_threshold = <<19, 20>>)
              => Len(presult.patches) = 0
        /\ (AllWhite /\ ~pargs.skip_blank)
              => Len(presult.patches) = Cardinality(Grid)

\* a cell whose ratio equals the threshold is emitted next to one that is skipped
C8_Witness ==
    /\ Returned
    /\ pargs.skip_blank
    /\ pargs.blank_threshold = <<1, 2>>
    /\ \E xy \in Grid :
          /\ 2 * CellWhites(xy[1], xy[2]) = CellW(xy[1]) * CellH(xy[2])
          /\ \E i \in 1..Len(presult.patches) : <<PixelBounds(i)[1], PixelBounds(i)[2]>> = xy
    /\ \E xy \in Grid :
          /\ CellBlank(xy[1], xy[2])
          /\ \A i \in 1..Len(presult.patches) : <<PixelBounds(i)[1], PixelBounds(i)[2]>> # xy

C11_RaisesIffStrideNotPositive ==
    presult # None =>
        /\ presult.kind \in {"ValueError", "PatchSet"}
        /\ presult.kind = "ValueError" <=> pargs.patch_size - pargs.overlap <= 0
        /\ presult.kind = "PatchSet" <=> pargs.patch_size - pargs.overlap > 0
        /\ presult.kind = "ValueError" => DOMAIN presult = {"kind"}

\* overlap = patch_size, the largest stride that is refused
C11_Witness ==
    /\ presult # None
    /\ presult.kind = "ValueError"
    /\ pargs.overlap = pargs.patch_size
    /\ pargs.patch_size = MaxPatch

\* C15: every emitted patch with pixel origin (x, y) has row = y / stride and
\* col = x / stride, however many cells before it were skipped as blank: a
\* skipped cell leaves a gap in the col numbering of its row, and col starts
\* again at 0 on every row.
C15_RowColAreGridPositions ==
    Returned =>
        \A i \in 1..Len(presult.patches) :
            LET p == presult.patches[i] IN
            /\ p.pixel_bounds[1] % Stride(pargs) = 0
            /\ p.pixel_bounds[2] % Stride(pargs) = 0
            /\ p.col = p.pixel_bounds[1] \div Stride(pargs)
            /\ p.row = p.pixel_bounds[2] \div Stride(pargs)

\* the first cell of row 0 is skipped, its neighbour is emitted with col 1,
\* and row 1 starts again with col 0
C15_Witness ==
    /\ Returned
    /\ pargs.skip_blank
    /\ CellBlank(0, 0)
    /\ \E i \in 1..Len(presult.patches) :
          /\ presult.patches[i].row = 0 /\ presult.patches[i].col = 1
          /\ PixelBounds(i)[1] = Stride(pargs)
    /\ \A i \in 1..Len(presult.patches) :
          ~(presult.patches[i].row = 0 /\ presult.patches[i].col = 0)
    /\ \E i \in 1..Len(presult.patches) :
          /\ presult.patches[i].row = 1 /\ presult.patches[i].col = 0
          /\ PixelBounds(i)[1] = 0

LexLess(p, q) == p.row < q.row \/ (p.row = q.row /\ p.col < q.col)

\* C16: the PatchSet is in row-major emission order: for positions i < j,
\* (row_i, col_i) is lexicographically less than (row_j, col_j); so no
\* (row, col) occurs twice, and the length is the number of grid cells that
\* were not skipped.
C16_RowMajorOrder ==
    Returned =>
        /\ \A i \in 1..Len(presult.patches), j \in 1..Len(presult.patches) :
              i < j => LexLess(presult.patches[i], presult.patches[j])
        /\ Cardinality({<<presult.patches[i].row, presult.patches[i].col>> :
                           i \in 1..Len(presult.patches)}) = Len(presult.patches)
        /\ Len(presult.patches)
              = Cardinality(Grid)
                  - Cardinality({xy \in Grid : pargs.skip_blank /\ CellBlank(xy[1], xy[2])})

\* two rows of two cells with overlapping patches, one cell skipped
C16_Witness ==
    /\ Returned
    /\ pargs.overlap > 0
    /\ Cardinality(GridXs) >= 2 /\ Cardinality(GridYs) >= 2
    /\ Len(presult.patches) = Cardinality(Grid) - 1
    /\ \E i \in 1..Len(presult.patches), j \in 1..Len(presult.patches) :
          /\ i < j
          /\ presult.patches[i].row < presult.patches[j].row
          /\ presult.patches[i].col > presult.patches[j].col

(***************************************************************************)
(* Properties of download (SpecDownload).                                  *)
(***************************************************************************)
Called == dargs # None

\* the call has ended: it returned or raised
Ended == pc = "done"

OnTiledPath == Called /\ (pc = "tiles" \/ (Ended /\ \A k \in 1..Len(requests) : requests[k].kind = "tile"
                                          /\ (Len(requests) = 0 => outcome.kind # "URLError")))

\* ceil(a / b) for b > 0
Ceil(a, b) == IF a % b = 0 THEN a \div b ELSE (a \div b) + 1

GridCells == (0..(Ceil(desc.height, desc.tile_size) - 1)) \X (0..(Ceil(desc.width, desc.tile_size) - 1))

\* the region the specification gives for cell (row, col)
CellRegion(row, col) ==
    <<col * desc.tile_size, row * desc.tile_size,
      IF desc.width - col * desc.tile_size < desc.tile_size
          THEN desc.width - col * desc.tile_size ELSE desc.tile_size,
      IF desc.height - row * desc.tile_size < desc.tile_size
          THEN desc.height - row * desc.tile_size ELSE desc.tile_size>>

InRegion(r, i, j) == r[1] <= i /\ i < r[1] + r[3] /\ r[2] <= j /\ j < r[2] + r[4]

ImagePixels == (0..(desc.width - 1)) \X (0..(desc.height - 1))

\* C3: for width, height, tile_size > 0 a tiled download that meets no fetch
\* failure issues exactly rows * cols tile requests, one per grid cell, each for
\* the cell's clamped region; the regions are non-empty, inside the image,
\* pairwise disjoint and cover every pixel.
C3_OneRequestPerCell ==
    (Ended /\ OnTiledPath /\ desc.tile_size > 0 /\ ~failed) =>
        /\ Len(requests)
              = Ceil(desc.height, desc.tile_size) * Ceil(desc.width, desc.tile_size)
        /\ \A rc \in GridCells :
              Cardinality({k \in 1..Len(requests) :
                  requests[k].region = CellRegion(rc[1], rc[2])}) = 1
        /\ \A k \in 1..Len(requests) :
              LET r == requests[k].region IN
              /\ r[3] >= 1 /\ r[4] >= 1
              /\ r[1] >= 0 /\ r[2] >= 0
              /\ r[1] + r[3] <= desc.width /\ r[2] + r[4] <= desc.height
        /\ \A ij \in ImagePixels :
              Cardinality({k \in 1..Len(requests) :
                  InRegion(requests[k].region, ij[1], ij[2])}) = 1

\* C4: after a tiled download in which every tile request returned a tile of
\* exactly the requested size, the returned raster is width x height, every
\* pixel of it lies in a requested cell region and equals the pixel the tile of
\* that cell supplied (the remote image's pixel there).
C4_CanvasIsTheTiles ==
    (Ended /\ OnTiledPath /\ outcome.kind = "MapImage" /\ exact) =>
        /\ outcome.data.width = desc.width
        /\ outcome.data.height = desc.height
        /\ \A ij \in ImagePixels :
              /\ \E k \in 1..Len(requests) : InRegion(requests[k].region, ij[1], ij[2])
              /\ outcome.data.pix[ij[2]][ij[1]] = remote.pix[ij[2]][ij[1]]

TileFailed == failed /\ Len(requests) > 0 /\ requests[Len(requests)].kind = "tile"

\* C5: once a tile fetch has failed the download has ended with an error: no
\* raster, no saved file, the failed region requested once, and no request
\* is issued after it.
C5_FailedTileAborts ==
    /\ [](TileFailed =>
            /\ Ended
            /\ outcome.kind = "URLError"
            /\ ~saved
            /\ \A k \in 1..(Len(requests) - 1) :
                  requests[k].region # requests[Len(requests)].region)
    /\ [][TileFailed => (requests' = requests /\ outcome' = outcome /\ saved' = saved)]_vars

\* a tile fetch fails after two tiles were stitched
C5_Witness ==
    /\ TileFailed
    /\ Len(requests) = 3
    /\ HasCell(AfterCell(pos))
    /\ dargs.save
    /\ \E ij \in ImagePixels : canvas.pix[ij[2]][ij[1]] # Black

\* C6: with tile_size <= 0 a tiled download is rejected with an error before
\* any tile request, and never returns a raster.
C6_BadTileSizeRejected ==
    (OnTiledPath /\ desc.tile_size <= 0) =>
        /\ requests = <<>>
        /\ Ended => (outcome.kind # "MapImage" /\ ~saved)

\* C7: when max_size is given and max(width, height) > max_size, download
\* issues exactly one request, region full and size fit-within max_size, and
\* no tile request; in every other case it takes the tiled path and issues no
\* scaled request.  A returned image within max_size x max_size gives a raster
\* whose longer edge is <= max_size.
C7_ScaledIffGivenAndLarger ==
    Called =>
        IF dargs.given /\ Max(desc.width, desc.height) > dargs.max_size
        THEN /\ pc # "tiles"
             /\ Len(requests) <= 1
             /\ \A k \in 1..Len(requests) :
                   requests[k] = [kind |-> "scaled", region |-> "full", fit |-> dargs.max_size]
             /\ Ended => Len(requests) = 1
             /\ (Ended /\ outcome.kind = "MapImage"
                    /\ tile_arr.width <= dargs.max_size /\ tile_arr.height <= dargs.max_size)
                 => Max(outcome.data.width, outcome.data.height) <= dargs.max_size
        ELSE /\ pc # "scaled"
             /\ \A k \in 1..Len(requests) : requests[k].kind = "tile"

\* a step of _download_tiled in which the requested tile came back
TileReturned ==
    /\ pc = "tiles"
    /\ Len(requests') = Len(requests) + 1
    /\ ~failed'

\* the overlap of the returned tile and the expected extent of its cell
InOverlap(r, tile, i, j) ==
    /\ r[1] <= i /\ i < r[1] + Min(r[3], tile.width)
    /\ r[2] <= j /\ j < r[2] + Min(r[4], tile.height)

\* C14: whatever size (tw, th) the returned tile has, smaller or larger than
\* the requested (w, h), at every grid cell, stitching it succeeds and changes
\* only canvas pixels inside [x, x+min(w,tw)) x [y, y+min(h,th)); so no two
\* tiles write a common pixel and the canvas does not depend on their order.
C14_StitchClampsToOverlap ==
    [][TileReturned =>
          /\ pc' = "tiles"
          /\ outcome' = None
          /\ \A ij \in ImagePixels :
                canvas'.pix[ij[2]][ij[1]] # canvas.pix[ij[2]][ij[1]]
                    => InOverlap(requests'[Len(requests')].region, tile_arr', ij[1], ij[2])]_vars

(***************************************************************************)
(* Properties of get_region (SpecRegion).                                  *)
(***************************************************************************)
\* num / den rounded to the nearest integer, a tie going to the even one
Round(num, den) ==
    LET q == num \div den
        r == num % den
    IN  IF 2 * r < den THEN q
        ELSE IF 2 * r > den THEN q + 1
        ELSE IF q % 2 = 0 THEN q ELSE q + 1

AtLeastOne(n) == IF n < 1 THEN 1 ELSE n

RegionCalled == Called /\ pc = "done"

\* what every get_region call does, whatever the size
OneRegionRequest ==
    /\ Len(requests) = 1
    /\ requests[1].kind = "region"
    /\ requests[1].region = <<dargs.x, dargs.y, dargs.w, dargs.h>>
    /\ dargs.scale[1] = dargs.scale[2] => requests[1].size = [kind |-> "full"]

\* C13 as stated: get_region issues exactly one request for region x,y,w,h;
\* for scale < 1 the size is round(w*scale) by round(h*scale), each at least
\* 1, and for scale = 1 the size is "full".
C13_RoundedSize ==
    RegionCalled =>
        /\ OneRegionRequest
        /\ dargs.scale[1] < dargs.scale[2] =>
              requests[1].size =
                  [kind |-> "wh",
                   w |-> AtLeastOne(Round(dargs.w * dargs.scale[1], dargs.scale[2])),
                   h |-> AtLeastOne(Round(dargs.h * dargs.scale[1], dargs.scale[2]))]

\* C13 amended: the same with w*scale and h*scale cut off to their integer
\* part (floor) instead of rounded.
C13_TruncatedSize ==
    RegionCalled =>
        /\ OneRegionRequest
        /\ dargs.scale[1] < dargs.scale[2] =>
              requests[1].size =
                  [kind |-> "wh",
                   w |-> AtLeastOne((dargs.w * dargs.scale[1]) \div dargs.scale[2]),
                   h |-> AtLeastOne((dargs.h * dargs.scale[1]) \div dargs.scale[2])]

\* w*scale = 8/3 is cut off to 2 where rounding gives 3, h*scale = 2/3 is
\* raised to 1
C13_Witness ==
    /\ RegionCalled
    /\ outcome.kind = "ndarray"
    /\ dargs.w = 4 /\ dargs.h = 1 /\ dargs.scale = <<2, 3>>
    /\ requests[1].size = [kind |-> "wh", w |-> 2, h |-> 1]
    /\ outcome.data.width = 2

(***************************************************************************)
(* Properties of manifest and service resolution (SpecResolve).            *)
(***************************************************************************)
\* the id of the service a v2 resource refers to: of its service object, or
\* of the first entry when "service" is a list
ResourceRef(service) ==
    IF service.list /\ Len(service.ids) = 0 THEN "" ELSE service.ids[1]

\* the ids of the references the v2 traversal meets, in document order
RefsV2 ==
    Cat([s \in 1..Len(manifest.sequences) |->
        Cat([c \in 1..Len(manifest.sequences[s].canvases) |->
            [i \in 1..Len(manifest.sequences[s].canvases[c].images) |->
                ResourceRef(manifest.sequences[s].canvases[c].images[i].resource.service)]])])

\* the ids of the references the v3 traversal meets, in document order
RefsV3 ==
    Cat([c \in 1..Len(manifest.items) |->
        Cat([p \in 1..Len(manifest.items[c].items) |->
            Cat([a \in 1..Len(manifest.items[c].items[p].items) |->
                manifest.items[c].items[p].items[a].body.service.ids])])])

\* from_manifest has read the manifest
ManifestRead == manifest # None /\ requests # <<>> /\ ~(failed /\ Len(requests) = 1)

InfoRequests == {k \in 1..Len(requests) : requests[k].kind = "info"}

C17_DescriptorIsPositive ==
    outcome.kind = "IIIFDownloader" =>
        /\ desc.width > 0
        /\ desc.height > 0
        /\ desc.tile_size > 0
        /\ Len(desc.scale_factors) > 0
        /\ info.tiles = <<>> => (desc.tile_size = 1024 /\ desc.scale_factors = <<1>>)

(***************************************************************************)
(* Properties of the coordinate conversions (SpecGeo).                     *)
(***************************************************************************)
\* C10: for every invertible affine transform T and every pixel coordinate
\* (x, y), geo_to_pixel(pixel_to_geo(x, y, T), T) equals (x, y) in exact
\* arithmetic; a transform that is not invertible makes geo_to_pixel raise.
C10_RoundTrip ==
    /\ geo.kind = "pixel" =>
          /\ REq(geo.back[1], geo.pixel[1])
          /\ REq(geo.back[2], geo.pixel[2])
    /\ geo.kind = "TransformNotInvertibleError" =>
          geo.T.a[1] * geo.T.e[1] = geo.T.b[1] * geo.T.d[1]
    /\ geo.kind = "pixel" => geo.T.a[1] * geo.T.e[1] # geo.T.b[1] * geo.T.d[1]

\* a sheared, shifted, north-up transform and a fractional pixel coordinate
C10_Witness ==
    /\ geo.kind = "pixel"
    /\ geo.T.b[1] # 0 /\ geo.T.d[1] # 0
    /\ geo.T.c[1] # 0 /\ geo.T.f[1] # 0
    /\ geo.T.e[1] < 0
    /\ geo.pixel[1] = <<3, 2>> /\ geo.pixel[2] = <<1, 2>>
    /\ ~REq(geo.point[1], geo.pixel[1])

====
